---- MODULE Spec2Model ----
(***************************************************************************)
(* Model of python-steemlib's operation type system (steembase/operations) *)
(* and of the wallet JSON-RPC client (steemapi/steemwalletrpc).            *)
(*                                                                         *)
(* Python strings that the code takes apart (operation names, class names, *)
(* JSON string bodies) are sequences of one-character strings.  Field      *)
(* values handed to String() are sequences of Unicode code points.         *)
(* Dictionaries are sequences of <<key, value>> pairs in insertion order.  *)
(***************************************************************************)
EXTENDS Integers, Sequences, FiniteSets, TLC

VARIABLES
    operations,    \* the module-level dict  operations  (name -> id)
    arg,           \* the field map the caller holds (a dict, in the caller's key order)
    data,          \* heap of OrderedDict objects: address -> dict
    variants,      \* Vote / Comment instances: [cls, data (address), src (instance copied from, or 0)]
    ops,           \* Operation instances: [opId, name, op (variant index), via]
    out,           \* what the last call returned or raised
    nmut,          \* number of field assignments made so far
    rpc            \* what the last rpcexec call received and returned or raised

vars == <<operations, arg, data, variants, ops, out, nmut, rpc>>

\* ------------------------------------------------------------------ bounds

MaxProbeId == 300
MaxNegProbe == 3
MaxData == 2
MaxVariants == 2
MaxOps == 2
MaxMut == 1

\* ------------------------------------------------------------------ strings

Lowercase == <<"a","b","c","d","e","f","g","h","i","j","k","l","m",
               "n","o","p","q","r","s","t","u","v","w","x","y","z">>
Uppercase == <<"A","B","C","D","E","F","G","H","I","J","K","L","M",
               "N","O","P","Q","R","S","T","U","V","W","X","Y","Z">>

\* str.upper() / str.lower() on one character
Upper(c) == IF \E i \in 1..26 : Lowercase[i] = c
            THEN Uppercase[CHOOSE i \in 1..26 : Lowercase[i] = c] ELSE c
Lower(c) == IF \E i \in 1..26 : Uppercase[i] = c
            THEN Lowercase[CHOOSE i \in 1..26 : Uppercase[i] = c] ELSE c

\* name[0].upper() + name[1:]   (name is never empty here: operations[""] raised before)
Capitalize(name) == <<Upper(name[1])>> \o Tail(name)

\* s.lower()
LowerStr(s) == [i \in 1..Len(s) |-> Lower(s[i])]

Digits == <<"0","1","2","3","4","5","6","7","8","9">>

RECURSIVE DecNat(_)
DecNat(n) == IF n < 10 THEN <<Digits[n + 1]>>
             ELSE DecNat(n \div 10) \o <<Digits[(n % 10) + 1]>>

\* "%d" % i
FormatD(i) == IF i < 0 THEN <<"-">> \o DecNat(0 - i) ELSE DecNat(i)

\* needle in hay, for two Python strings
StrContains(hay, needle) ==
    \E j \in 1..(Len(hay) + 1) :
        /\ j + Len(needle) - 1 <= Len(hay)
        /\ SubSeq(hay, j, j + Len(needle) - 1) = needle

\* ------------------------------------------------------------------ dicts

DictKeys(d) == {d[j][1] : j \in 1..Len(d)}
DictHas(d, k) == k \in DictKeys(d)
\* d[k] for k in d: the value of the (only) pair with key k
DictGet(d, k) == d[CHOOSE j \in 1..Len(d) : d[j][1] = k][2]

\* ------------------------------------------------------------------ registry

OperationsTable == <<
    <<<<"v","o","t","e">>, 0>>,
    <<<<"c","o","m","m","e","n","t">>, 1>>,
    <<<<"t","r","a","n","s","f","e","r">>, 2>>,
    <<<<"t","r","a","n","s","f","e","r","_","t","o","_","v","e","s","t","i","n","g">>, 3>>,
    <<<<"w","i","t","h","d","r","a","w","_","v","e","s","t","i","n","g">>, 4>>,
    <<<<"l","i","m","i","t","_","o","r","d","e","r","_","c","r","e","a","t","e">>, 5>>,
    <<<<"l","i","m","i","t","_","o","r","d","e","r","_","c","a","n","c","e","l">>, 6>>,
    <<<<"f","e","e","d","_","p","u","b","l","i","s","h">>, 7>>,
    <<<<"c","o","n","v","e","r","t">>, 8>>,
    <<<<"a","c","c","o","u","n","t","_","c","r","e","a","t","e">>, 9>>,
    <<<<"a","c","c","o","u","n","t","_","u","p","d","a","t","e">>, 10>>,
    <<<<"w","i","t","n","e","s","s","_","u","p","d","a","t","e">>, 11>>,
    <<<<"a","c","c","o","u","n","t","_","w","i","t","n","e","s","s","_","v","o","t","e">>, 12>>,
    <<<<"a","c","c","o","u","n","t","_","w","i","t","n","e","s","s","_","p","r","o","x","y">>, 13>>,
    <<<<"p","o","w">>, 14>>,
    <<<<"c","u","s","t","o","m">>, 15>>,
    <<<<"r","e","p","o","r","t","_","o","v","e","r","_","p","r","o","d","u","c","t","i","o","n">>, 16>>,
    <<<<"f","i","l","l","_","c","o","n","v","e","r","t","_","r","e","q","u","e","s","t">>, 17>>,
    <<<<"c","o","m","m","e","n","t","_","r","e","w","a","r","d">>, 18>>,
    <<<<"c","u","r","a","t","e","_","r","e","w","a","r","d">>, 19>>,
    <<<<"l","i","q","u","i","d","i","t","y","_","r","e","w","a","r","d">>, 20>>,
    <<<<"i","n","t","e","r","e","s","t">>, 21>>,
    <<<<"f","i","l","l","_","v","e","s","t","i","n","g","_","w","i","t","h","d","r","a","w">>, 22>>,
    <<<<"f","i","l","l","_","o","r","d","e","r">>, 23>>
>>

\* The interpreter's cache of small int objects: equal ints in this range are
\* one object; outside it, whether two equal ints are one object depends on
\* the build and on how they were made (the parameter  shared  of IntIs: each
\* evaluation may go either way).
SmallIntMin == 0 - 5
SmallIntMax == 256

\* faulty variant: identity never holds
IntIsAlwaysFalse(a, b, shared) == FALSE
\* a is b, for two ints
IntIs(a, b, shared) ==
    /\ a = b
    /\ ((SmallIntMin <= a /\ a <= SmallIntMax) \/ shared)

UnknownPrefix == <<"U","n","k","n","o","w","n"," ","O","p","e","r","a","t","i","o","n",
                   " ","I","D"," ">>

\* faulty variant: the id is left out
PlaceholderNoId(i) == UnknownPrefix
\* "Unknown Operation ID %d" % i
Placeholder(i) == UnknownPrefix \o FormatD(i)

\* for key in operations: if int(operations[key]) is int(i): return key
RECURSIVE ScanOperations(_, _, _, _)
ScanOperations(d, i, j, shared) ==
    IF j > Len(d) THEN Placeholder(i)
    ELSE IF IntIs(d[j][2], i, shared) THEN d[j][1]
    ELSE ScanOperations(d, i, j + 1, shared)

getOperationNameForId(d, i, shared) == ScanOperations(d, i, 1, shared)

\* operations[name]: the id, or KeyError
KeyError(k) == [kind |-> "error", type |-> "KeyError", key |-> k]
OperationsLookup(d, name) ==
    IF DictHas(d, name) THEN [kind |-> "ok", value |-> DictGet(d, name)]
    ELSE KeyError(name)

NoOut == [kind |-> "none", call |-> <<"none">>]
NoRpc == [kind |-> "none"]

\* ------------------------------------------------------------------ primitive codec

\* compact (base-128, low group first) encoding of an unsigned integer
RECURSIVE Varint(_)
Varint(n) == IF n < 128 THEN <<n>>
             ELSE <<128 + (n % 128)>> \o Varint(n \div 128)

\* UTF-8 bytes of one code point (below 2^16)
Utf8(cp) == IF cp < 128 THEN <<cp>>
            ELSE IF cp < 2048 THEN <<192 + (cp \div 64), 128 + (cp % 64)>>
            ELSE <<224 + (cp \div 4096), 128 + ((cp \div 64) % 64), 128 + (cp % 64)>>

RECURSIVE Utf8Str(_)
Utf8Str(s) == IF s = <<>> THEN <<>> ELSE Utf8(Head(s)) \o Utf8Str(Tail(s))

\* bytes(String(s)): varint(byte length) ++ UTF-8 bytes
StringBytes(s) == Varint(Len(Utf8Str(s))) \o Utf8Str(s)

\* bytes(Int16(w)): two bytes, little-endian, two's complement
Int16Bytes(w) == LET u == w % 65536 IN <<u % 256, u \div 256>>

\* bytes(Id(i))
IdBytes(i) == Varint(i)

\* a typed field value, as String(x) / Int16(x) wrap it
String(x) == [t |-> "String", v |-> x]
Int16(x) == [t |-> "Int16", v |-> x]

FieldBytes(x) == IF x.t = "String" THEN StringBytes(x.v) ELSE Int16Bytes(x.v)

\* bytes(GrapheneObject): the values of its data, in the dict's order
RECURSIVE ObjectBytes(_)
ObjectBytes(d) == IF d = <<>> THEN <<>>
                  ELSE FieldBytes(Head(d)[2]) \o ObjectBytes(Tail(d))

\* JsonObj(GrapheneObject): the field map, each value unwrapped
JsonObj(d) == [j \in 1..Len(d) |-> <<d[j][1], d[j][2].v>>]

\* ------------------------------------------------------------------ variants

VoteName == <<"V","o","t","e">>
CommentName == <<"C","o","m","m","e","n","t">>

\* faulty variant: weight declared first
VoteSchemaWeightFirst == <<
    <<"weight",   "Int16">>,
    <<"voter",    "String">>,
    <<"author",   "String">>,
    <<"permlink", "String">> >>
VoteSchema == <<
    <<"voter",    "String">>,
    <<"author",   "String">>,
    <<"permlink", "String">>,
    <<"weight",   "Int16">> >>

CommentSchema == <<
    <<"parent_author",   "String">>,
    <<"parent_permlink", "String">>,
    <<"author",          "String">>,
    <<"permlink",        "String">>,
    <<"title",           "String">>,
    <<"body",            "String">>,
    <<"json_metadata",   "String">> >>

SchemaOf(cls) == IF cls = VoteName THEN VoteSchema ELSE CommentSchema

Wrap(t, x) == IF t = "String" THEN String(x) ELSE Int16(x)

\* OrderedDict([(k1, T1(kwargs[k1])), (k2, T2(kwargs[k2])), ...]): the list is
\* evaluated left to right, the first absent key raises KeyError
RECURSIVE BuildFields(_, _, _, _)
BuildFields(schema, kwargs, j, acc) ==
    IF j > Len(schema) THEN [kind |-> "ok", value |-> acc]
    ELSE IF ~DictHas(kwargs, schema[j][1]) THEN KeyError(schema[j][1])
    ELSE BuildFields(schema, kwargs, j + 1,
             Append(acc, <<schema[j][1], Wrap(schema[j][2], DictGet(kwargs, schema[j][1]))>>))

\* an argument handed to a constructor: a dict, or an existing variant instance
DictArg(m) == [kind |-> "dict", d |-> m]
VariantArg(v) == [kind |-> "variant", ref |-> v]

\* isArgsThisClass(self, args): one argument, whose type has this class's name
isArgsThisClass(cls, a, vs) == a.kind = "variant" /\ vs[a.ref].cls = cls

\* Vote.__init__ / Comment.__init__ with one positional argument a.
\* "alias": self.data is bound to the argument's own data object;
\* "new": self.data is a fresh OrderedDict; otherwise the exception raised.
\* faulty variant: absent keys are skipped instead of raising
VariantInitPartial(cls, a, vs, heap) ==
    IF isArgsThisClass(cls, a, vs) THEN [kind |-> "alias", addr |-> vs[a.ref].data, src |-> a.ref]
    ELSE IF a.kind = "variant"
    THEN [kind |-> "error", type |-> "TypeError"]
    ELSE [kind |-> "new",
          d |-> SelectSeq([j \in 1..Len(SchemaOf(cls)) |->
                     IF DictHas(a.d, SchemaOf(cls)[j][1])
                     THEN <<SchemaOf(cls)[j][1],
                            Wrap(SchemaOf(cls)[j][2], DictGet(a.d, SchemaOf(cls)[j][1]))>>
                     ELSE <<>>], LAMBDA p : p # <<>>)]
VariantInit(cls, a, vs, heap) ==
    IF isArgsThisClass(cls, a, vs) THEN [kind |-> "alias", addr |-> vs[a.ref].data, src |-> a.ref]
    ELSE IF a.kind = "variant"
    THEN \* kwargs = args[0], an object that cannot be subscripted
         [kind |-> "error", type |-> "TypeError"]
    ELSE LET r == BuildFields(SchemaOf(cls), a.d, 1, <<>>)
         IN  IF r.kind = "ok" THEN [kind |-> "new", d |-> r.value] ELSE r

\* eval(self.name) in the module's namespace: the class of that name, or NameError
\* (caught by the bare except).  No registered name capitalises to any other
\* global of the module.
\* faulty variant: every name resolves to some class
EvalAny(name) == [kind |-> "ok", cls |-> IF name = CommentName THEN CommentName ELSE VoteName]
Eval(name) == IF name \in {VoteName, CommentName} THEN [kind |-> "ok", cls |-> name]
              ELSE [kind |-> "error", type |-> "NameError"]

NotImplementedMsg(name) ==
    <<"U","n","i","m","p","l","e","m","e","n","t","e","d"," ",
      "O","p","e","r","a","t","i","o","n"," ">> \o name

\* Operation.__init__([name, a]): what it resolves before the payload is built.
\* "ok": opId, name and the class to construct; otherwise the exception raised.
OperationInitList(d, name) ==
    LET id == OperationsLookup(d, name)
    IN  IF id.kind # "ok" THEN id
        ELSE LET k == Eval(Capitalize(name))
             IN  IF k.kind # "ok"
                 THEN [kind |-> "error", type |-> "NotImplementedError",
                       msg |-> NotImplementedMsg(Capitalize(name))]
                 ELSE [kind |-> "ok", opId |-> id.value, name |-> Capitalize(name),
                       cls |-> k.cls]

\* Operation.__init__(op) for an op that is no two-element list: the name is the
\* lower-cased type name, the id is operations[name]
\* faulty variant: the id is off by one
OperationInitObjectWrongId(d, typeName) ==
    LET id == OperationsLookup(d, LowerStr(typeName))
    IN  IF id.kind # "ok" THEN id
        ELSE [kind |-> "ok", opId |-> id.value + 1, name |-> LowerStr(typeName)]
OperationInitObject(d, typeName) ==
    LET id == OperationsLookup(d, LowerStr(typeName))
    IN  IF id.kind # "ok" THEN id
        ELSE [kind |-> "ok", opId |-> id.value, name |-> LowerStr(typeName)]

\* Operation.__bytes__: bytes(Id(self.opId)) + bytes(self.op)
OperationBytes(o, vs, heap) == IdBytes(o.opId) \o ObjectBytes(heap[vs[o.op].data])

\* Operation.__str__: [getOperationNameForId(self.opId), JsonObj(self.op)]
OperationStr(o, vs, heap, d, shared) ==
    <<getOperationNameForId(d, o.opId, shared), JsonObj(heap[vs[o.op].data])>>

\* ------------------------------------------------------------------ registry probes

ProbeIds == (0 - MaxNegProbe)..MaxProbeId
RegisteredNames == DictKeys(OperationsTable)
ProbeNames == RegisteredNames \cup {Capitalize(n) : n \in RegisteredNames}
                 \cup {<<>>, <<"l","i","s","t">>}

InitRegistry ==
    /\ operations = OperationsTable
    /\ arg = <<>>
    /\ data = <<>>
    /\ variants = <<>>
    /\ ops = <<>>
    /\ out = NoOut
    /\ nmut = 0
    /\ rpc = NoRpc

CallGetOperationNameForId(i) ==
    /\ \E shared \in BOOLEAN :
         out' = [kind |-> "name_for_id", arg |-> i, call |-> <<"name_for_id">>,
                 value |-> getOperationNameForId(operations, i, shared)]
    /\ UNCHANGED <<operations, arg, data, variants, ops, nmut, rpc>>

CallOperationsLookup(n) ==
    /\ out' = [kind |-> "id_for_name", arg |-> n, call |-> <<"id_for_name">>,
               value |-> OperationsLookup(operations, n)]
    /\ UNCHANGED <<operations, arg, data, variants, ops, nmut, rpc>>

NextRegistry ==
    \/ \E i \in ProbeIds : CallGetOperationNameForId(i)
    \/ \E n \in ProbeNames : CallOperationsLookup(n)

SpecRegistry == InitRegistry /\ [][NextRegistry]_vars

\* ------------------------------------------------------------------ caller's inputs

\* "a" and "éb"
Strs == {<<97>>, <<233, 98>>}
Weights == {0 - 2, 300}

KeysOf(cls) == [j \in 1..Len(SchemaOf(cls)) |-> SchemaOf(cls)[j][1]]
Reverse(s) == [j \in 1..Len(s) |-> s[Len(s) + 1 - j]]

\* the key orders a caller's dict is written in
KeyOrders(cls) == {KeysOf(cls), Reverse(KeysOf(cls))}

\* the values a caller gives the fields: permlink "p1"; a top-level comment
\* (every string empty) with one field filled in
VoteValues ==
    {[k \in {"voter", "author", "permlink", "weight"} |->
         IF k = "voter" THEN s1 ELSE IF k = "author" THEN s2
         ELSE IF k = "permlink" THEN <<112, 49>> ELSE w] :
     s1 \in Strs, s2 \in Strs, w \in Weights}
CommentKeys == {CommentSchema[j][1] : j \in 1..Len(CommentSchema)}
CommentValues ==
    {[k \in CommentKeys |-> IF k = filled THEN <<233, 98>> ELSE <<>>] : filled \in CommentKeys}
ValuesOf(cls) == IF cls = VoteName THEN VoteValues ELSE CommentValues

\* the dict with the keys of order, except those in drop, in that order
MakeDict(order, f, drop) ==
    LET kept == SelectSeq(order, LAMBDA k : k \notin drop)
    IN  [j \in 1..Len(kept) |-> <<kept[j], f[kept[j]]>>]

\* complete field maps, and field maps lacking one declared field
ArgMaps ==
    UNION {{MakeDict(order, f, {}) : order \in KeyOrders(cls), f \in ValuesOf(cls)}
           : cls \in {VoteName, CommentName}}
    \cup
    UNION {{MakeDict(KeysOf(cls), CHOOSE f \in ValuesOf(cls) : TRUE, {k})
              : k \in DictKeys(SchemaOf(cls))}
           : cls \in {VoteName, CommentName}}

\* the names callers ask for: every registered name, and some that are not
CallNames == RegisteredNames \cup {VoteName, <<>>}

\* ------------------------------------------------------------------ operations

Init ==
    /\ operations = OperationsTable
    /\ arg \in ArgMaps
    /\ data = <<>>
    /\ variants = <<>>
    /\ ops = <<>>
    /\ out = NoOut
    /\ nmut = 0
    /\ rpc = NoRpc

\* the arguments a constructor can be handed: the caller's dict or a live variant
Args == {DictArg(arg)} \cup {VariantArg(v) : v \in 1..Len(variants)}

\* the heap and the instances after klass(a) succeeded with result r
Allocate(cls, r) ==
    IF r.kind = "alias"
    THEN /\ data' = data
         /\ variants' = Append(variants, [cls |-> cls, data |-> r.addr, src |-> r.src])
    ELSE /\ data' = Append(data, r.d)
         /\ variants' = Append(variants, [cls |-> cls, data |-> Len(data) + 1, src |-> 0])

HasRoom(r) == /\ Len(variants) < MaxVariants
              /\ r.kind = "new" => Len(data) < MaxData

\* v = Vote(a)  /  v = Comment(a)
NewVariant(cls, a) ==
    LET r == VariantInit(cls, a, variants, data)
    IN  /\ r.kind # "error" => HasRoom(r)
        /\ IF r.kind = "error"
           THEN /\ out' = [r EXCEPT !.kind = "raised"] @@ [call |-> <<"variant", cls, a.kind>>]
                /\ UNCHANGED <<data, variants>>
           ELSE /\ Allocate(cls, r)
                /\ out' = [kind |-> "variant", ref |-> Len(variants) + 1,
                           call |-> <<"variant", cls, a.kind>>]
        /\ UNCHANGED <<operations, arg, ops, nmut, rpc>>

\* o = Operation([name, a])
NewOperationFromList(name, a) ==
    LET h == OperationInitList(operations, name)
        r == IF h.kind = "ok" THEN VariantInit(h.cls, a, variants, data) ELSE h
    IN  /\ r.kind # "error" => (HasRoom(r) /\ Len(ops) < MaxOps)
        /\ IF r.kind = "error"
           THEN /\ out' = [r EXCEPT !.kind = "raised"] @@ [call |-> <<"operation", name, a.kind>>]
                /\ UNCHANGED <<data, variants, ops>>
           ELSE /\ Allocate(h.cls, r)
                /\ ops' = Append(ops, [opId |-> h.opId, name |-> h.name,
                                       op |-> Len(variants) + 1, via |-> "list"])
                /\ out' = [kind |-> "operation", ref |-> Len(ops) + 1,
                           call |-> <<"operation", name, a.kind>>]
        /\ UNCHANGED <<operations, arg, nmut, rpc>>

\* o = Operation(v) for a variant instance v  (the name is also printed to
\* stdout, which is not part of the state)
NewOperationFromVariant(v) ==
    LET h == OperationInitObject(operations, variants[v].cls)
    IN  /\ h.kind = "ok" => Len(ops) < MaxOps
        /\ IF h.kind # "ok"
           THEN /\ out' = [h EXCEPT !.kind = "raised"] @@ [call |-> <<"wrap", v>>]
                /\ UNCHANGED ops
           ELSE /\ ops' = Append(ops, [opId |-> h.opId, name |-> h.name,
                                       op |-> v, via |-> "variant"])
                /\ out' = [kind |-> "operation", ref |-> Len(ops) + 1,
                           call |-> <<"wrap", v>>]
        /\ UNCHANGED <<operations, arg, data, variants, nmut, rpc>>

\* o = Operation(x) for a list x that has not two elements: type(x).__name__ is "list"
NewOperationFromOther ==
    LET h == OperationInitObject(operations, <<"l","i","s","t">>)
    IN  /\ h.kind # "ok"
        /\ out' = [h EXCEPT !.kind = "raised"] @@ [call |-> <<"other">>]
        /\ UNCHANGED <<operations, arg, data, variants, ops, nmut, rpc>>

\* faulty variant: encoding consumes the first field of the payload
EncodeConsuming(o) ==
    /\ out' = [kind |-> "bytes", op |-> o, call |-> <<"bytes", o>>,
               value |-> OperationBytes(ops[o], variants, data)]
    /\ data' = [data EXCEPT ![variants[ops[o].op].data] = Tail(@)]
    /\ UNCHANGED <<operations, arg, variants, ops, nmut, rpc>>

\* bytes(o)
Encode(o) ==
    /\ out' = [kind |-> "bytes", op |-> o, call |-> <<"bytes", o>>,
               value |-> OperationBytes(ops[o], variants, data)]
    /\ UNCHANGED <<operations, arg, data, variants, ops, nmut, rpc>>

\* str(o)
Display(o) ==
    /\ \E shared \in BOOLEAN :
         out' = [kind |-> "display", op |-> o, call |-> <<"str", o>>,
                 value |-> OperationStr(ops[o], variants, data, operations, shared)]
    /\ UNCHANGED <<operations, arg, data, variants, ops, nmut, rpc>>

\* v.data[key] = T(x): a field of the instance v is assigned
SetField(v, j, x) ==
    LET addr == variants[v].data
        key == data[addr][j][1]
    IN  /\ nmut < MaxMut
        /\ data[addr][j][2].v # x
        /\ data' = [data EXCEPT ![addr][j][2] = Wrap(data[addr][j][2].t, x)]
        /\ nmut' = nmut + 1
        /\ out' = [kind |-> "set", ref |-> v, key |-> key, call |-> <<"set", v>>]
        /\ UNCHANGED <<operations, arg, variants, ops, rpc>>

\* the names Spec's callers ask for: the implemented ones, one registered name
\* without a class, one unregistered name
SomeNames == {LowerStr(VoteName), LowerStr(CommentName), OperationsTable[3][1], VoteName}

Next ==
    \/ \E cls \in {VoteName, CommentName} : NewVariant(cls, DictArg(arg))
    \/ \E name \in SomeNames : NewOperationFromList(name, DictArg(arg))
    \/ \E v \in 1..Len(variants) : NewOperationFromVariant(v)
    \/ NewOperationFromOther
    \/ \E o \in 1..Len(ops) : Encode(o)
    \/ \E o \in 1..Len(ops) : Display(o)

Spec == Init /\ [][Next]_vars

\* ------------------------------------------------------------------ dispatch by name

NextDispatch ==
    \/ \E cls \in {VoteName, CommentName} : NewVariant(cls, DictArg(arg))
    \/ \E name \in CallNames : NewOperationFromList(name, DictArg(arg))
    \/ \E o \in 1..Len(ops) : Encode(o)

SpecDispatch == Init /\ [][NextDispatch]_vars

\* ------------------------------------------------------------------ copies and assignment

InitCopy ==
    /\ Init
    /\ \E cls \in {VoteName, CommentName} : DictKeys(arg) = DictKeys(SchemaOf(cls))

NextCopy ==
    \/ \E cls \in {VoteName, CommentName}, a \in Args : NewVariant(cls, a)
    \/ \E name \in {LowerStr(VoteName), LowerStr(CommentName)}, v \in 1..Len(variants) :
         NewOperationFromList(name, VariantArg(v))
    \/ \E v \in 1..Len(variants) :
         \E j \in 1..Len(data[variants[v].data]) :
           \E x \in (IF data[variants[v].data][j][2].t = "String" THEN Strs ELSE Weights) :
             SetField(v, j, x)

SpecCopy == InitCopy /\ [][NextCopy]_vars

\* ------------------------------------------------------------------ wallet RPC client

\* JSON values, as json.loads returns them
JNull == [t |-> "null"]
JNum(n) == [t |-> "num", v |-> n]
JStr(x) == [t |-> "str", v |-> x]
JArr(x) == [t |-> "arr", v |-> x]
JObj(x) == [t |-> "obj", v |-> x]

ErrorKey == <<"e","r","r","o","r">>
DetailKey == <<"d","e","t","a","i","l">>
MessageKey == <<"m","e","s","s","a","g","e">>
ResultKey == <<"r","e","s","u","l","t">>
CodeKey == <<"c","o","d","e">>
IdKey == <<"i","d">>

Raised(type, payload) == [kind |-> "raise", type |-> type, value |-> payload]
Returned(v) == [kind |-> "return", value |-> v]
Value(b) == [kind |-> "ok", value |-> b]

\* k in v, for a string k: a key of a dict, an element of a list, a substring of
\* a string; other values are not containers (TypeError)
PyIn(k, v) ==
    IF v.t = "obj" THEN Value(DictHas(v.v, k))
    ELSE IF v.t = "arr" THEN Value(\E j \in 1..Len(v.v) : v.v[j] = JStr(k))
    ELSE IF v.t = "str" THEN Value(StrContains(v.v, k))
    ELSE Raised("TypeError", k)

\* v[k], for a string k: the dict's value or KeyError; lists and strings take
\* integer indices only and other values none (TypeError)
PyGetItem(v, k) ==
    IF v.t = "obj"
    THEN IF DictHas(v.v, k) THEN Value(DictGet(v.v, k)) ELSE Raised("KeyError", k)
    ELSE Raised("TypeError", k)

Unauthorized == 401

ConnectMsg == "Error connecting to Client!"
LoginMsg == "Invalid login credentials!"
FormatMsg == "Client returned invalid format. Expected JSON!"

\* the error branch of rpcexec: 'error' in ret held
RpcErrorBranch(ret) ==
    LET e == PyGetItem(ret, ErrorKey)
    IN  IF e.kind # "ok" THEN e
        ELSE LET hasDetail == PyIn(DetailKey, e.value)
             IN  IF hasDetail.kind # "ok" THEN hasDetail
                 ELSE LET m == PyGetItem(e.value,
                                   IF hasDetail.value THEN DetailKey ELSE MessageKey)
                      IN  IF m.kind # "ok" THEN m ELSE Raised("RPCError", m.value)

\* SteemWalletRPC.rpcexec(payload) against a server that behaves as  server
\* faulty variant: the body is parsed before the status is looked at
rpcexecParseFirst(payload, server) ==
    IF payload.dumps = "circular" THEN Raised("ValueError", FormatMsg)
    ELSE IF payload.dumps = "unserializable" THEN Raised("TypeError", "dumps")
    ELSE IF ~server.conn THEN Raised("RPCConnection", ConnectMsg)
    ELSE IF ~server.body.json THEN Raised("ValueError", FormatMsg)
    ELSE IF server.status = Unauthorized THEN Raised("UnauthorizedError", LoginMsg)
    ELSE LET ret == server.body.val
             hasError == PyIn(ErrorKey, ret)
         IN  IF hasError.kind # "ok" THEN hasError
             ELSE IF hasError.value THEN RpcErrorBranch(ret)
             ELSE LET r == PyGetItem(ret, ResultKey)
                  IN  IF r.kind # "ok" THEN r ELSE Returned(r.value)
rpcexec(payload, server) ==
    \* json.dumps(payload) is evaluated before the request is made: a circular
    \* payload raises ValueError (caught below), any other unserialisable one TypeError
    IF payload.dumps = "circular" THEN Raised("ValueError", FormatMsg)
    ELSE IF payload.dumps = "unserializable" THEN Raised("TypeError", "dumps")
    ELSE IF ~server.conn THEN Raised("RPCConnection", ConnectMsg)
    ELSE IF server.status = Unauthorized THEN Raised("UnauthorizedError", LoginMsg)
    ELSE IF ~server.body.json THEN Raised("ValueError", FormatMsg)
    ELSE LET ret == server.body.val
             hasError == PyIn(ErrorKey, ret)
         IN  IF hasError.kind # "ok" THEN hasError
             ELSE IF hasError.value THEN RpcErrorBranch(ret)
             ELSE LET r == PyGetItem(ret, ResultKey)
                  IN  IF r.kind # "ok" THEN r ELSE Returned(r.value)

\* the query __getattr__'s method builds
Query(name, args) ==
    [method |-> name, params |-> args.vals, jsonrpc |-> "2.0", id |-> 0,
     dumps |-> args.dumps]

\* argument tuples: serialisable ones, one holding an object json cannot
\* serialise, one holding a container that contains itself
ArgTuples == {[vals |-> <<"alice", "5">>, dumps |-> "ok"],
              [vals |-> <<"object">>, dumps |-> "unserializable"],
              [vals |-> <<"cycle">>, dumps |-> "circular"]}
MethodNames == {"transfer"}

\* what the error member of a response can be
ErrorValues ==
    {JNull, JNum(1), JStr(<<"b","a","d">>), JStr(DetailKey), JArr(<<JStr(DetailKey)>>)}
    \cup {JObj(MakeDict(<<CodeKey, DetailKey, MessageKey>>,
                        [k \in {CodeKey, DetailKey, MessageKey} |->
                            IF k = CodeKey THEN JNum(1) ELSE JStr(k)],
                        drop)) : drop \in SUBSET {DetailKey, MessageKey}}
ResultValues == {JNull, JArr(<<JNum(7)>>)}

ObjectBodies ==
    {JObj(<< <<IdKey, JNum(0)>> >>)}
    \cup {JObj(<< <<ResultKey, r>> >>) : r \in ResultValues}
    \cup {JObj(<< <<ErrorKey, e>> >>) : e \in ErrorValues}
    \cup {JObj(<< <<ResultKey, JNull>>, <<ErrorKey, e>> >>) : e \in ErrorValues}
OtherBodies == {JNull, JNum(7), JStr(<<"o","k">>), JStr(ErrorKey \o <<"!">>),
                JArr(<<>>), JArr(<<JStr(ErrorKey)>>)}

Bodies == {[json |-> FALSE]} \cup {[json |-> TRUE, val |-> b] : b \in ObjectBodies \cup OtherBodies}
Statuses == {200, Unauthorized, 500}
Servers == {[conn |-> FALSE]}
           \cup {[conn |-> TRUE, status |-> st, body |-> b] : st \in Statuses, b \in Bodies}

InitRPC ==
    /\ operations = OperationsTable
    /\ arg = <<>>
    /\ data = <<>>
    /\ variants = <<>>
    /\ ops = <<>>
    /\ out = NoOut
    /\ nmut = 0
    /\ rpc = NoRpc

\* rpc.rpcexec(payload)
CallRpcexec(payload, server) ==
    /\ rpc' = [kind |-> "call", payload |-> payload, server |-> server,
               result |-> rpcexec(payload, server)]
    /\ UNCHANGED <<operations, arg, data, variants, ops, out, nmut>>

\* rpc.<name>(*args): __getattr__'s method
CallMethod(name, args, server) ==
    /\ rpc' = [kind |-> "call", payload |-> Query(name, args), server |-> server,
               result |-> rpcexec(Query(name, args), server)]
    /\ UNCHANGED <<operations, arg, data, variants, ops, out, nmut>>

NextRPC ==
    \/ \E a \in ArgTuples, server \in Servers :
         CallRpcexec([method |-> "raw", dumps |-> a.dumps], server)
    \/ \E name \in MethodNames, a \in ArgTuples, server \in Servers :
         CallMethod(name, a, server)

SpecRPC == InitRPC /\ [][NextRPC]_vars

\* ------------------------------------------------------------------ properties

RegisteredIds == {operations[j][2] : j \in 1..Len(operations)}

\* reading a decimal numeral back: the integer, or "none" if s is no numeral
DigitValue(c) == (CHOOSE k \in 1..10 : Digits[k] = c) - 1
IsDigits(s) == s # <<>> /\ \A j \in 1..Len(s) : \E k \in 1..10 : Digits[k] = s[j]
RECURSIVE ReadNat(_)
ReadNat(s) == IF Len(s) = 1 THEN DigitValue(s[1])
              ELSE 10 * ReadNat(SubSeq(s, 1, Len(s) - 1)) + DigitValue(s[Len(s)])
Reads(s, k) == IF s # <<>> /\ s[1] = "-"
               THEN IsDigits(Tail(s)) /\ 0 - ReadNat(Tail(s)) = k
               ELSE IsDigits(s) /\ ReadNat(s) = k

\* C5: the registry is a bijection between its 24 names and the ids 0..23:
\* looking a registered name up and converting its id back gives the name, in
\* both directions, and no two names share an id.
C5_Bijection ==
    /\ Len(operations) = 24
    /\ Cardinality(DictKeys(operations)) = 24
    /\ RegisteredIds = 0..23
    /\ (out.kind = "id_for_name" /\ out.arg \in DictKeys(operations))
          => /\ out.value.kind = "ok"
             /\ \A shared \in BOOLEAN :
                   getOperationNameForId(operations, out.value.value, shared) = out.arg
    /\ (out.kind = "name_for_id" /\ out.arg \in RegisteredIds)
          => OperationsLookup(operations, out.value) = [kind |-> "ok", value |-> out.arg]

C5_Witness ==
    /\ out.kind = "id_for_name"
    /\ out.arg = OperationsTable[24][1]
    /\ out.value = [kind |-> "ok", value |-> 23]

\* C6: for an id that is not registered, getOperationNameForId returns a string
\* that is no registered name and whose last word is the decimal numeral of the id.
C6_Placeholder ==
    (out.kind = "name_for_id" /\ out.arg \notin RegisteredIds)
       => /\ out.value \notin DictKeys(operations)
          /\ \E j \in 2..Len(out.value) :
                /\ out.value[j - 1] = " "
                /\ Reads(SubSeq(out.value, j, Len(out.value)), out.arg)

C6_Witness ==
    /\ out.kind = "name_for_id"
    /\ out.arg > SmallIntMax
    /\ StrContains(out.value, UnknownPrefix)

\* the fields an instance reads through its data attribute
FieldsOf(v) == data[variants[v].data]

\* C1: an Operation built from [name, m] and an Operation built from a variant
\* value of the same class holding the same fields encode to the same bytes.
C1_SameBytes ==
    \A i \in 1..Len(ops), j \in 1..Len(ops) :
        (/\ ops[i].via = "list"
         /\ ops[j].via = "variant"
         /\ variants[ops[i].op].cls = variants[ops[j].op].cls
         /\ FieldsOf(ops[i].op) = FieldsOf(ops[j].op))
        => OperationBytes(ops[i], variants, data) = OperationBytes(ops[j], variants, data)

C1_Witness ==
    /\ Len(ops) = 2
    /\ ops[1].via = "list"
    /\ ops[2].via = "variant"
    /\ ops[1].op # ops[2].op
    /\ variants[ops[1].op].data # variants[ops[2].op].data
    /\ variants[ops[1].op].cls = CommentName
    /\ FieldsOf(ops[1].op) = FieldsOf(ops[2].op)
    /\ out.kind = "bytes"

\* the bytes the wire format asks for, from the caller's field map
ExpectedVote(m) ==
    <<0>> \o StringBytes(DictGet(m, "voter")) \o StringBytes(DictGet(m, "author"))
          \o StringBytes(DictGet(m, "permlink")) \o Int16Bytes(DictGet(m, "weight"))
ExpectedComment(m) ==
    <<1>> \o StringBytes(DictGet(m, "parent_author"))
          \o StringBytes(DictGet(m, "parent_permlink"))
          \o StringBytes(DictGet(m, "author")) \o StringBytes(DictGet(m, "permlink"))
          \o StringBytes(DictGet(m, "title")) \o StringBytes(DictGet(m, "body"))
          \o StringBytes(DictGet(m, "json_metadata"))

\* C2: encode() returns the id (0 for Vote, 1 for Comment) in compact form and
\* then the fields in declared order, whatever the key order of the field map
\* the payload was built from.
C2_Encoding ==
    out.kind = "bytes"
       => out.value = IF variants[ops[out.op].op].cls = VoteName
                      THEN ExpectedVote(arg) ELSE ExpectedComment(arg)

C2_Witness ==
    /\ out.kind = "bytes"
    /\ variants[ops[out.op].op].cls = VoteName
    /\ arg[1][1] = "weight"
    /\ DictGet(arg, "weight") < 0
    /\ DictGet(arg, "voter") # DictGet(arg, "author")
    /\ out.value[1] = 0

\* C3: for every Operation, operations[op.name] is op.opId and
\* getOperationNameForId(op.opId) is op.name.
C3_NameIdDerivable ==
    \A i \in 1..Len(ops) :
        /\ OperationsLookup(operations, ops[i].name) = [kind |-> "ok", value |-> ops[i].opId]
        /\ \A shared \in BOOLEAN :
              getOperationNameForId(operations, ops[i].opId, shared) = ops[i].name

\* C4: a field assignment made through a copy leaves the fields of the
\* instance it was copied from as they were.
C4_CopyIndependent ==
    [][\A c \in 1..Len(variants) :
          (/\ variants[c].src # 0
           /\ nmut' = nmut + 1
           /\ out'.kind = "set"
           /\ out'.ref = c)
          => data'[variants[variants[c].src].data] = data[variants[variants[c].src].data]]_vars

UnimplementedNames ==
    DictKeys(OperationsTable) \ {LowerStr(VoteName), LowerStr(CommentName)}

\* C7: Operation([name, m]) for a registered name other than vote and comment
\* raises NotImplementedError, and no Operation, no variant and no payload
\* data comes into being.
C7_Unimplemented ==
    [][\A name \in UnimplementedNames :
          (out'.call[1] = "operation" /\ out'.call[2] = name)
          => /\ out'.kind = "raised"
             /\ out'.type = "NotImplementedError"
             /\ UNCHANGED <<data, variants, ops>>]_vars

C7_Witness ==
    /\ out.kind = "raised"
    /\ out.type = "NotImplementedError"
    /\ out.call = <<"operation", OperationsTable[24][1], "dict">>
    /\ out.msg = NotImplementedMsg(<<"F","i","l","l","_","o","r","d","e","r">>)
    /\ Len(ops) > 0

MissingFields(cls, m) == DictKeys(SchemaOf(cls)) \ DictKeys(m)

\* C8: Vote(m) / Comment(m), directly or through Operation([name, m]), for a
\* field map m lacking a declared field raises KeyError naming a missing field,
\* and no variant, no Operation and no payload data comes into being.
C8_MissingField ==
    [][\A cls \in {VoteName, CommentName} :
          (/\ MissingFields(cls, arg) # {}
           /\ \/ out'.call = <<"variant", cls, "dict">>
              \/ out'.call = <<"operation", LowerStr(cls), "dict">>)
          => /\ out'.kind = "raised"
             /\ out'.type = "KeyError"
             /\ out'.key \in MissingFields(cls, arg)
             /\ UNCHANGED <<data, variants, ops>>]_vars

C8_Witness ==
    /\ out.kind = "raised"
    /\ out.call = <<"operation", LowerStr(VoteName), "dict">>
    /\ out.type = "KeyError"
    /\ out.key = "weight"
    /\ MissingFields(VoteName, arg) = {"weight"}

\* C9: bytes(op) and str(op) change no Operation, no variant, no payload data
\* and not the registry, and encoding an Operation again right after it was
\* encoded returns the same bytes.
C9_Pure ==
    [][/\ out'.call[1] \in {"bytes", "str"}
          => UNCHANGED <<operations, data, variants, ops>>
       /\ (out.kind = "bytes" /\ out'.kind = "bytes" /\ out'.op = out.op)
          => out'.value = out.value]_vars

C9_Witness ==
    /\ out.kind = "display"
    /\ out.value[1] = LowerStr(CommentName)
    /\ ops[out.op].via = "list"
    /\ Len(ops) = 2

\* a JSON value has the member k: it is an object with that key
HasMember(v, k) == v.t = "obj" /\ DictHas(v.v, k)

Sent(p) == p.dumps = "ok"
Answered(p, sv) == Sent(p) /\ sv.conn
Parsed(p, sv) == Answered(p, sv) /\ sv.status # 401 /\ sv.body.json

\* what the error member carries: detail when present, message otherwise
Carried(e) == IF HasMember(e, DetailKey) THEN DictGet(e.v, DetailKey)
              ELSE DictGet(e.v, MessageKey)

\* the result is returned only when the request was answered, not with 401, by
\* a JSON body without error member
ReturnsOnlyResult(p, sv, r) ==
    r.kind = "return"
       => /\ Parsed(p, sv)
          /\ ~HasMember(sv.body.val, ErrorKey)
          /\ HasMember(sv.body.val, ResultKey)
          /\ r.value = DictGet(sv.body.val.v, ResultKey)

RaisedAs(r, type) == r.kind = "raise" /\ r.type = type

\* C10 as stated, for a payload that was sent: rpcexec returns the result only
\* when the request succeeded, the status is not 401, the body is JSON and has
\* no error member; in every other case it raises RPCConnection (no connection), UnauthorizedError
\* (status 401, whatever the body), ValueError (body not JSON) or RPCError
\* carrying error.detail when present and error.message otherwise.
C10_AlwaysClassified ==
    (rpc.kind = "call" /\ Sent(rpc.payload)) =>
        LET p == rpc.payload
            sv == rpc.server
            r == rpc.result
        IN  /\ ReturnsOnlyResult(p, sv, r)
            /\ ~(Parsed(p, sv) /\ ~HasMember(sv.body.val, ErrorKey))
                  => /\ r.kind = "raise"
                     /\ r.type \in {"RPCConnection", "UnauthorizedError", "ValueError", "RPCError"}
                     /\ r.type = "RPCConnection" <=> ~sv.conn
                     /\ r.type = "UnauthorizedError" <=> (sv.conn /\ sv.status = 401)
                     /\ r.type = "ValueError" <=> (sv.conn /\ sv.status # 401 /\ ~sv.body.json)
                     /\ r.type = "RPCError" => r.value = Carried(DictGet(sv.body.val.v, ErrorKey))

\* the answers rpcexec classifies: an object whose error member is an object
\* holding detail or message
ErrorReported(v) ==
    /\ HasMember(v, ErrorKey)
    /\ \/ HasMember(DictGet(v.v, ErrorKey), DetailKey)
       \/ HasMember(DictGet(v.v, ErrorKey), MessageKey)

\* C10, amended: the result is returned only under the stated conditions; for a
\* payload json.dumps serialises, no connection raises RPCConnection, status 401
\* raises UnauthorizedError whatever the body, a body that is not JSON raises
\* ValueError, and an object whose error member is an object holding detail or
\* message raises RPCError carrying detail when present, message otherwise.
\* Every other call that returns nothing lets TypeError or KeyError escape, but
\* for a circular payload, which raises ValueError.
C10_ClassifiedWhenWellFormed ==
    rpc.kind = "call" =>
        LET p == rpc.payload
            sv == rpc.server
            r == rpc.result
        IN  /\ ReturnsOnlyResult(p, sv, r)
            /\ (Sent(p) /\ ~sv.conn) => (RaisedAs(r, "RPCConnection") /\ r.value = ConnectMsg)
            /\ (Answered(p, sv) /\ sv.status = 401)
                  => (RaisedAs(r, "UnauthorizedError") /\ r.value = LoginMsg)
            /\ (Answered(p, sv) /\ sv.status # 401 /\ ~sv.body.json)
                  => (RaisedAs(r, "ValueError") /\ r.value = FormatMsg)
            /\ (Parsed(p, sv) /\ ErrorReported(sv.body.val))
                  => /\ RaisedAs(r, "RPCError")
                     /\ r.value = Carried(DictGet(sv.body.val.v, ErrorKey))
            /\ (Parsed(p, sv) /\ ~ErrorReported(sv.body.val) /\ r.kind # "return")
                  => (RaisedAs(r, "TypeError") \/ RaisedAs(r, "KeyError"))
            /\ p.dumps = "circular" => RaisedAs(r, "ValueError")
            /\ p.dumps = "unserializable" => RaisedAs(r, "TypeError")

C10_Witness ==
    /\ rpc.kind = "call"
    /\ rpc.payload.dumps = "ok"
    /\ rpc.payload.method = "transfer"
    /\ rpc.server.conn
    /\ rpc.server.status = 500
    /\ rpc.server.body.json
    /\ HasMember(rpc.server.body.val, ResultKey)
    /\ RaisedAs(rpc.result, "RPCError")
    /\ rpc.result.value = JStr(DetailKey)
    /\ HasMember(DictGet(rpc.server.body.val.v, ErrorKey), MessageKey)

====
